---------------------------- MODULE Spec2Model ----------------------------
(***************************************************************************)
(* A model of the front end of abdullahedhiii/CC-Project: the scanner's    *)
(* token classification (src/src/lexer.py), the recursive-descent /        *)
(* precedence-climbing parser (src/src/parser.py) and the two-pass         *)
(* semantic analyzer (src/src/semantic.py).                                *)
(*                                                                         *)
(* The source text is held as a sequence of lexemes (lexer.py's            *)
(* mo.group() values, in order); tokenize classifies each and appends EOF. *)
(* The parser's methods are operators over a cursor record                 *)
(*     p = [pos |-> self.pos, exps |-> <history of expect calls>]          *)
(* and return [st, p, node], st being "ok" or the exception raised.        *)
(* Syntax tree nodes are records tagged by t (the Python class name).      *)
(***************************************************************************)
EXTENDS Integers, Sequences, FiniteSets, TLC

VARIABLES
    code,          \* the source text, as its sequence of lexemes
    pc,            \* where the driver (run.py main) is
    tokens,        \* Parser.tokens
    parser,        \* Parser.pos and the history of expect calls
    outcome,       \* how parse() / parse_expression() ended
    tree,          \* the node returned by the parser (None before / on failure)
    errors,        \* SemanticAnalyzer.errors
    global_scope,  \* SemanticAnalyzer.global_scope
    functions,     \* SemanticAnalyzer.functions (insertion order kept)
    runs,          \* number of analyze() calls made on the analyzer
    first_errors   \* history: errors as it was when the first analyze() returned

vars == <<code, pc, tokens, parser, outcome, tree, errors, global_scope,
          functions, runs, first_errors>>

---------------------------------------------------------------------------
(* Absent values *)

\* Python's None where a node is expected
None == [t |-> "None"]

\* Python's None where a string (a type name, an expected value) is expected
NoneStr == "<None>"

---------------------------------------------------------------------------
(* Scanner: src/src/lexer.py *)

KEYWORDS ==
    {"int", "float", "char", "bool", "if", "else", "for", "while", "do",
     "return", "const", "true", "false", "void"}

\* the lexemes of the OP rule
OpLexemes ==
    {"==", "!=", "<=", ">=", "||", "&&", "++", "--", "+=", "-=", "*=", "/=", "%="}

\* the lexemes of the SYMBOL rule
SymbolLexemes ==
    {"+", "-", "*", "/", "%", "<", ">", "=", "!", "&", "|", ".", ",", ";", ":",
     "(", ")", "{", "}", "[", "]"}

\* the literal lexemes used by the inputs below, by the rule that matches them
FloatLexemes == {"1.5"}
IntLexemes == {"1", "6"}

\* the token kind of a lexeme: the first rule of token_specification that
\* matches it, an ID being reclassified to its keyword
Kind(lexeme) ==
    IF lexeme \in FloatLexemes THEN "FLOAT"
    ELSE IF lexeme \in IntLexemes THEN "INT"
    ELSE IF lexeme \in OpLexemes THEN "OP"
    ELSE IF lexeme \in SymbolLexemes THEN "SYMBOL"
    ELSE IF lexeme \in KEYWORDS THEN lexeme
    ELSE "ID"

Token(type, value) == [type |-> type, value |-> value]

tokenize(src) ==
    [i \in 1..Len(src) |-> Token(Kind(src[i]), src[i])] \o <<Token("EOF", "")>>

(* The scanner over characters: a source text is a sequence of one-character *)
(* strings, offsets are counted from 0 as in Python.                         *)

\* the characters of the inputs, by the character class that holds them
Digits == {"1"}
IdStart == {"a"}
Blanks == {" ", "\t"}

\* text[i], "" past the end
At(text, i) == IF i >= 0 /\ i < Len(text) THEN text[i + 1] ELSE ""

\* text[i:j] as a string
RECURSIVE Slice(_, _, _)
Slice(text, i, j) == IF i >= j THEN "" ELSE text[i + 1] \o Slice(text, i + 1, j)

\* the end of the longest run of characters of S that starts at i
RECURSIVE RunEnd(_, _, _)
RunEnd(text, i, S) == IF At(text, i) \in S THEN RunEnd(text, i + 1, S) ELSE i

\* the end of '.*' from i: up to the next newline
RECURSIVE LineEnd(_, _)
LineEnd(text, i) ==
    IF i >= Len(text) \/ At(text, i) = "\n" THEN i ELSE LineEnd(text, i + 1)

\* the offsets j >= i where "*/" starts
Closers(text, i) ==
    {j \in i..(Len(text) - 2) : At(text, j) = "*" /\ At(text, j + 1) = "/"}

\* a match object: the group that matched and the offset where it ends
Match(kind, end) == [kind |-> kind, end |-> end]

\* the regular expression tried at offset i: the first alternative of
\* token_specification that matches there, "NONE" when none does
match(text, i) ==
    LET c == At(text, i)
        d == At(text, i + 1)
        digits == RunEnd(text, i, Digits)
    IN
    IF c = "/" /\ d = "/" THEN Match("COMMENT", LineEnd(text, i + 2))
    ELSE IF c = "/" /\ d = "*" /\ Closers(text, i + 2) # {}
         THEN Match("MULTICOMMENT",
                    (CHOOSE j \in Closers(text, i + 2) :
                         \A k \in Closers(text, i + 2) : j <= k) + 2)
    ELSE IF c = "'" /\ d = "\\" /\ At(text, i + 2) \notin {"", "\n"}
                    /\ At(text, i + 3) = "'"
         THEN Match("CHAR", i + 4)
    ELSE IF c = "'" /\ d \notin {"", "\\", "'"} /\ At(text, i + 2) = "'"
         THEN Match("CHAR", i + 3)
    ELSE IF c \in Digits /\ At(text, digits) = "." /\ At(text, digits + 1) \in Digits
         THEN Match("FLOAT", RunEnd(text, digits + 1, Digits))
    ELSE IF c \in Digits THEN Match("INT", digits)
    ELSE IF c \in IdStart THEN Match("ID", RunEnd(text, i, IdStart \cup Digits))
    ELSE IF (c \o d) \in OpLexemes THEN Match("OP", i + 2)
    ELSE IF c \in SymbolLexemes THEN Match("SYMBOL", i + 1)
    ELSE IF c \in Blanks THEN Match("SKIP", RunEnd(text, i, Blanks))
    ELSE IF c = "\n" THEN Match("NEWLINE", i + 1)
    ELSE Match("NONE", i + 1)

\* a token with its position; start is mo.start(), kept for the properties
TokenAt(type, value, line, column, start) ==
    [type |-> type, value |-> value, line |-> line, column |-> column,
     start |-> start]

\* the loop of Lexer.tokenize over the matches from offset pos on
RECURSIVE tokenize_loop(_, _, _, _, _)
tokenize_loop(text, pos, line_num, line_start, toks) ==
    IF pos >= Len(text) THEN Append(toks, TokenAt("EOF", "", line_num, 1, Len(text)))
    ELSE LET mo == match(text, pos)
             value == Slice(text, pos, mo.end)
             column == pos - line_start + 1
         IN
         IF mo.kind = "NEWLINE"
         THEN tokenize_loop(text, mo.end, line_num + 1, mo.end, toks)
         ELSE IF mo.kind \in {"SKIP", "COMMENT", "MULTICOMMENT", "NONE"}
         THEN tokenize_loop(text, mo.end, line_num, line_start, toks)
         ELSE tokenize_loop(text, mo.end, line_num, line_start,
                  Append(toks,
                         TokenAt(IF mo.kind = "ID" /\ value \in KEYWORDS
                                 THEN value ELSE mo.kind,
                                 value, line_num, column, pos)))

\* Lexer(text).tokenize()
Lexer_tokenize(text) == tokenize_loop(text, 0, 1, 0, <<>>)

---------------------------------------------------------------------------
(* Syntax tree: src/src/ast.py *)

Program(declarations) == [t |-> "Program", declarations |-> declarations]
FuncDecl(ret_type, name, params, body) ==
    [t |-> "FuncDecl", ret_type |-> ret_type, name |-> name, params |-> params,
     body |-> body]
VarDecl(var_type, name, init, is_const) ==
    [t |-> "VarDecl", var_type |-> var_type, name |-> name, init |-> init,
     is_const |-> is_const]
Compound(statements) == [t |-> "Compound", statements |-> statements]
If(cond, then_branch, else_branch) ==
    [t |-> "If", cond |-> cond, then_branch |-> then_branch,
     else_branch |-> else_branch]
While(cond, body) == [t |-> "While", cond |-> cond, body |-> body]
For(init, cond, post, body) ==
    [t |-> "For", init |-> init, cond |-> cond, post |-> post, body |-> body]
Return(expr) == [t |-> "Return", expr |-> expr]
ExprStmt(expr) == [t |-> "ExprStmt", expr |-> expr]
BinaryOp(op, left, right) ==
    [t |-> "BinaryOp", op |-> op, left |-> left, right |-> right]
UnaryOp(op, expr) == [t |-> "UnaryOp", op |-> op, expr |-> expr]
Literal(value, typ) == [t |-> "Literal", value |-> value, typ |-> typ]
VarRef(name) == [t |-> "VarRef", name |-> name]
FuncCall(name, args) == [t |-> "FuncCall", name |-> name, args |-> args]

\* a Python list returned where a node is expected (several declarators)
List(items) == [t |-> "list", items |-> items]

---------------------------------------------------------------------------
(* Parser: src/src/parser.py *)

\* results of a parsing method
Ok(p, node) == [st |-> "ok", p |-> p, node |-> node]
Raise(exc, p) == [st |-> exc, p |-> p, node |-> None]

\* self.tokens[self.pos] is a valid read
InRange(p) == p.pos < Len(tokens)

peek(p) == tokens[p.pos + 1]

next(p) == [p EXCEPT !.pos = p.pos + 1]

\* the test of expect: TRUE when expect raises ParseError
expect_rejects(tok, typ, value) ==
    tok.type # typ /\ (value = NoneStr \/ tok.value # value)

expect(p, typ, value) ==
    IF ~InRange(p) THEN Raise("IndexError", p)
    ELSE LET tok == peek(p) IN
         IF expect_rejects(tok, typ, value) THEN Raise("ParseError", p)
         ELSE Ok([pos |-> p.pos + 1,
                  exps |-> Append(p.exps, [typ |-> typ, value |-> value, got |-> tok])],
                 tok)

PRECEDENCE ==
    ("||" :> 1) @@ ("&&" :> 2) @@ ("==" :> 3) @@ ("!=" :> 3) @@
    ("<" :> 4) @@ (">" :> 4) @@ ("<=" :> 4) @@ (">=" :> 4) @@
    ("+" :> 5) @@ ("-" :> 5) @@
    ("*" :> 6) @@ ("/" :> 6) @@ ("%" :> 6) @@
    ("=" :> 0) @@
    ("+=" :> 0) @@ ("-=" :> 0) @@ ("*=" :> 0) @@ ("/=" :> 0) @@ ("%=" :> 0)

AssignOps == {"=", "+=", "-=", "*=", "/=", "%="}

PrefixOps == {"!", "+", "-", "++", "--"}

\* next_min without "prec + 1": every operator treated as right-associative
next_min_same(op, prec) == prec

\* the minimum precedence of the right operand of op
next_min(op, prec) == IF op \in AssignOps THEN prec ELSE prec + 1

RECURSIVE parse_expression(_, _)
RECURSIVE parse_args(_, _)
RECURSIVE parse_postfix(_, _)
RECURSIVE parse_binary(_, _, _)

\* the argument loop of a call: p is at the start of an argument
parse_args(p, args) ==
    LET a == parse_expression(p, 0) IN
    IF a.st # "ok" THEN a
    ELSE IF ~InRange(a.p) THEN Raise("IndexError", a.p)
    ELSE IF peek(a.p).value = "," THEN parse_args(next(a.p), Append(args, a.node))
    ELSE Ok(a.p, Append(args, a.node))

\* postfix ++ / -- after a primary
parse_postfix(p, left) ==
    IF ~InRange(p) THEN Raise("IndexError", p)
    ELSE IF peek(p).value \in {"++", "--"}
         THEN parse_postfix(next(p), UnaryOp("post" \o peek(p).value, left))
         ELSE Ok(p, left)

\* the binary-operator loop
parse_binary(p, left, min_prec) ==
    IF ~InRange(p) THEN Raise("IndexError", p)
    ELSE LET op_tok == peek(p)
             op == op_tok.value
         IN IF /\ op_tok.type \in {"OP", "SYMBOL"}
               /\ op \in DOMAIN PRECEDENCE
               /\ PRECEDENCE[op] >= min_prec
            THEN LET prec == PRECEDENCE[op]
                     right == parse_expression(next(p), next_min(op, prec))
                 IN IF right.st # "ok" THEN right
                    ELSE parse_binary(right.p, BinaryOp(op, left, right.node), min_prec)
            ELSE Ok(p, left)

\* the primary at p, tok being peek(p)
parse_primary(p, tok) ==
    IF tok.type = "INT" THEN Ok(next(p), Literal(tok.value, "int"))
    ELSE IF tok.type = "FLOAT" THEN Ok(next(p), Literal(tok.value, "float"))
    ELSE IF tok.type = "CHAR" THEN Ok(next(p), Literal(tok.value, "char"))
    ELSE IF tok.type \in {"true", "false"} THEN Ok(next(p), Literal(tok.type, "bool"))
    ELSE IF tok.type = "ID" THEN
        LET p1 == next(p) IN
        IF ~InRange(p1) THEN Raise("IndexError", p1)
        ELSE IF peek(p1).value = "(" THEN
            LET p2 == next(p1) IN
            IF ~InRange(p2) THEN Raise("IndexError", p2)
            ELSE LET as == IF peek(p2).value # ")" THEN parse_args(p2, <<>>)
                           ELSE Ok(p2, <<>>)
                 IN IF as.st # "ok" THEN as
                    ELSE LET x == expect(as.p, "SYMBOL", ")") IN
                         IF x.st # "ok" THEN x
                         ELSE Ok(x.p, FuncCall(tok.value, as.node))
        ELSE Ok(p1, VarRef(tok.value))
    ELSE IF tok.value = "(" THEN
        LET e == parse_expression(next(p), 0) IN
        IF e.st # "ok" THEN e
        ELSE LET x == expect(e.p, "SYMBOL", ")") IN
             IF x.st # "ok" THEN x ELSE Ok(x.p, e.node)
    ELSE Raise("ParseError", p)

parse_expression(p, min_prec) ==
    IF ~InRange(p) THEN Raise("IndexError", p)
    ELSE LET tok == peek(p) IN
         IF tok.value \in PrefixOps THEN
             LET e == parse_expression(next(p), 7) IN
             IF e.st # "ok" THEN e
             ELSE Ok(e.p, UnaryOp(IF tok.value \in {"++", "--"}
                                  THEN "pre" \o tok.value ELSE tok.value,
                                  e.node))
         ELSE LET prim == parse_primary(p, tok) IN
              IF prim.st # "ok" THEN prim
              ELSE LET post == parse_postfix(prim.p, prim.node) IN
                   IF post.st # "ok" THEN post
                   ELSE parse_binary(post.p, post.node, min_prec)


\* str.upper() on the token kinds the scanner produces
Upper(type) ==
    CASE type = "int" -> "INT"
      [] type = "float" -> "FLOAT"
      [] type = "char" -> "CHAR"
      [] type = "bool" -> "BOOL"
      [] type = "void" -> "VOID"
      [] type = "if" -> "IF"
      [] type = "else" -> "ELSE"
      [] type = "for" -> "FOR"
      [] type = "while" -> "WHILE"
      [] type = "do" -> "DO"
      [] type = "return" -> "RETURN"
      [] type = "const" -> "CONST"
      [] type = "true" -> "TRUE"
      [] type = "false" -> "FALSE"
      [] OTHER -> type

\* the token kinds that start a local declaration
LocalDeclStart == {"int", "float", "char", "bool", "const"}

\* self.<method>(): a call of one parsing method from another
RECURSIVE call(_, _, _)

RECURSIVE parse_statement(_)
RECURSIVE parse_compound_loop(_, _)
RECURSIVE parse_params(_, _)
RECURSIVE parse_declarators(_, _, _, _)

\* the parameter loop: p is at a parameter's type
parse_params(p, params) ==
    IF ~InRange(p) THEN Raise("IndexError", p)
    ELSE LET ptype == peek(p).value
             pname == expect(next(p), "ID", NoneStr)
         IN IF pname.st # "ok" THEN pname
            ELSE IF ~InRange(pname.p) THEN Raise("IndexError", pname.p)
            ELSE LET ps == Append(params, <<ptype, pname.node.value>>) IN
                 IF peek(pname.p).value = "," THEN parse_params(next(pname.p), ps)
                 ELSE Ok(pname.p, ps)

\* the optional initializer of the declarator just read: returns its
\* expression, or None
parse_initializer(p) ==
    IF ~InRange(p) THEN Raise("IndexError", p)
    ELSE IF peek(p).value = "=" \/ (peek(p).type = "OP" /\ peek(p).value = "=")
         THEN call("parse_expression", next(p), 0)
         ELSE Ok(p, None)

\* the loop over the declarators that follow the first one
parse_declarators(p, typ, is_const, decls) ==
    IF ~InRange(p) THEN Raise("IndexError", p)
    ELSE IF peek(p).value = "," THEN
        LET next_name == expect(next(p), "ID", NoneStr) IN
        IF next_name.st # "ok" THEN next_name
        ELSE LET init == parse_initializer(next_name.p) IN
             IF init.st # "ok" THEN init
             ELSE parse_declarators(init.p, typ, is_const,
                      Append(decls, VarDecl(typ, next_name.node.value, init.node, is_const)))
    ELSE LET x == expect(p, "SYMBOL", ";") IN
         IF x.st # "ok" THEN x ELSE Ok(x.p, List(decls))

parse_typed_declaration(p) ==
    IF ~InRange(p) THEN Raise("IndexError", p)
    ELSE LET is_const == (peek(p).type = "const")
             p1 == IF is_const THEN next(p) ELSE p
         IN
         IF ~InRange(p1) THEN Raise("IndexError", p1)
         ELSE LET typ == peek(p1).value
                  name_tok == expect(next(p1), "ID", NoneStr)
              IN
              IF name_tok.st # "ok" THEN name_tok
              ELSE LET name == name_tok.node.value
                       p2 == name_tok.p
                   IN
                   IF ~InRange(p2) THEN Raise("IndexError", p2)
                   ELSE IF peek(p2).value = "(" THEN
                       LET p3 == next(p2) IN
                       IF ~InRange(p3) THEN Raise("IndexError", p3)
                       ELSE LET params == IF peek(p3).value # ")"
                                          THEN parse_params(p3, <<>>)
                                          ELSE Ok(p3, <<>>)
                            IN IF params.st # "ok" THEN params
                               ELSE LET x == expect(params.p, "SYMBOL", ")") IN
                                    IF x.st # "ok" THEN x
                                    ELSE LET body == call("parse_compound", x.p, 0) IN
                                         IF body.st # "ok" THEN body
                                         ELSE Ok(body.p,
                                                 FuncDecl(typ, name, params.node, body.node))
                   ELSE LET init == parse_initializer(p2) IN
                        IF init.st # "ok" THEN init
                        ELSE parse_declarators(init.p, typ, is_const,
                                 <<VarDecl(typ, name, init.node, is_const)>>)

parse_declaration(p) ==
    IF ~InRange(p) THEN Raise("IndexError", p)
    ELSE LET tok == peek(p) IN
         IF tok.type = "const" THEN call("parse_typed_declaration", p, 0)
         ELSE IF \/ tok.type \in {"int", "float", "char", "bool", "void"}
                 \/ Upper(tok.type) \in {"INT", "FLOAT", "CHAR", "BOOL", "VOID"}
              THEN call("parse_typed_declaration", p, 0)
         ELSE Raise("ParseError", p)

\* the statement loop of a compound
parse_compound_loop(p, stmts) ==
    IF ~InRange(p) THEN Raise("IndexError", p)
    ELSE IF peek(p).value # "}" THEN
        LET s == call("parse_statement", p, 0) IN
        IF s.st # "ok" THEN s
        ELSE parse_compound_loop(s.p, IF s.node.t = "list" THEN stmts \o s.node.items
                                      ELSE Append(stmts, s.node))
    ELSE Ok(next(p), Compound(stmts))

parse_compound(p) ==
    IF ~InRange(p) THEN Raise("IndexError", p)
    ELSE IF peek(p).value # "{" THEN Raise("ParseError", p)
    ELSE parse_compound_loop(next(p), <<>>)

\* "( cond )" of if / while / do-while
parse_condition(p) ==
    LET x == expect(p, "SYMBOL", "(") IN
    IF x.st # "ok" THEN x
    ELSE LET cond == call("parse_expression", x.p, 0) IN
         IF cond.st # "ok" THEN cond
         ELSE LET y == expect(cond.p, "SYMBOL", ")") IN
              IF y.st # "ok" THEN y ELSE Ok(y.p, cond.node)

\* the init clause of a for statement, with its ';'
parse_for_init(p) ==
    IF ~InRange(p) THEN Raise("IndexError", p)
    ELSE IF peek(p).value = ";" THEN Ok(next(p), None)
    ELSE IF peek(p).type \in LocalDeclStart THEN call("parse_declaration", p, 0)
    ELSE LET init == call("parse_expression", p, 0) IN
         IF init.st # "ok" THEN init
         ELSE LET x == expect(init.p, "SYMBOL", ";") IN
              IF x.st # "ok" THEN x ELSE Ok(x.p, init.node)

\* the condition clause of a for statement, with its ';'
parse_for_cond(p) ==
    IF ~InRange(p) THEN Raise("IndexError", p)
    ELSE IF peek(p).value = ";" THEN Ok(next(p), None)
    ELSE LET cond == call("parse_expression", p, 0) IN
         IF cond.st # "ok" THEN cond
         ELSE LET x == expect(cond.p, "SYMBOL", ";") IN
              IF x.st # "ok" THEN x ELSE Ok(x.p, cond.node)

\* the post clause of a for statement, with the ')'
parse_for_post(p) ==
    IF ~InRange(p) THEN Raise("IndexError", p)
    ELSE LET post == IF peek(p).value = ")" THEN Ok(p, None)
                     ELSE call("parse_expression", p, 0)
         IN IF post.st # "ok" THEN post
            ELSE LET x == expect(post.p, "SYMBOL", ")") IN
                 IF x.st # "ok" THEN x ELSE Ok(x.p, post.node)

parse_statement(p) ==
    IF ~InRange(p) THEN Raise("IndexError", p)
    ELSE LET tok == peek(p) IN
    IF tok.type = "return" THEN
        LET p1 == next(p) IN
        IF ~InRange(p1) THEN Raise("IndexError", p1)
        ELSE IF peek(p1).value = ";" THEN Ok(next(p1), Return(None))
        ELSE LET expr == call("parse_expression", p1, 0) IN
             IF expr.st # "ok" THEN expr
             ELSE LET x == expect(expr.p, "SYMBOL", ";") IN
                  IF x.st # "ok" THEN x ELSE Ok(x.p, Return(expr.node))
    ELSE IF tok.value = "{" THEN call("parse_compound", p, 0)
    ELSE IF tok.type = "if" THEN
        LET cond == parse_condition(next(p)) IN
        IF cond.st # "ok" THEN cond
        ELSE LET thenb == parse_statement(cond.p) IN
             IF thenb.st # "ok" THEN thenb
             ELSE IF ~InRange(thenb.p) THEN Raise("IndexError", thenb.p)
             ELSE IF peek(thenb.p).type = "else" THEN
                 LET elseb == parse_statement(next(thenb.p)) IN
                 IF elseb.st # "ok" THEN elseb
                 ELSE Ok(elseb.p, If(cond.node, thenb.node, elseb.node))
             ELSE Ok(thenb.p, If(cond.node, thenb.node, None))
    ELSE IF tok.type = "while" THEN
        LET cond == parse_condition(next(p)) IN
        IF cond.st # "ok" THEN cond
        ELSE LET body == parse_statement(cond.p) IN
             IF body.st # "ok" THEN body
             ELSE Ok(body.p, While(cond.node, body.node))
    ELSE IF tok.type = "for" THEN
        LET x == expect(next(p), "SYMBOL", "(") IN
        IF x.st # "ok" THEN x
        ELSE LET init == parse_for_init(x.p) IN
             IF init.st # "ok" THEN init
             ELSE LET cond == parse_for_cond(init.p) IN
                  IF cond.st # "ok" THEN cond
                  ELSE LET post == parse_for_post(cond.p) IN
                       IF post.st # "ok" THEN post
                       ELSE LET body == parse_statement(post.p) IN
                            IF body.st # "ok" THEN body
                            ELSE Ok(body.p,
                                    For(init.node, cond.node, post.node, body.node))
    ELSE IF tok.type = "do" THEN
        LET body == parse_statement(next(p)) IN
        IF body.st # "ok" THEN body
        ELSE IF ~InRange(body.p) THEN Raise("IndexError", body.p)
        ELSE IF peek(body.p).type # "while" THEN Raise("ParseError", body.p)
        ELSE LET cond == parse_condition(next(body.p)) IN
             IF cond.st # "ok" THEN cond
             ELSE LET x == expect(cond.p, "SYMBOL", ";") IN
                  IF x.st # "ok" THEN x
                  ELSE Ok(x.p, While(cond.node, body.node))
    ELSE IF tok.type \in LocalDeclStart THEN call("parse_typed_declaration", p, 0)
    ELSE LET expr == call("parse_expression", p, 0) IN
         IF expr.st # "ok" THEN expr
         ELSE LET x == expect(expr.p, "SYMBOL", ";") IN
              IF x.st # "ok" THEN x ELSE Ok(x.p, ExprStmt(expr.node))

call(method, p, min_prec) ==
    CASE method = "parse_expression" -> parse_expression(p, min_prec)
      [] method = "parse_statement" -> parse_statement(p)
      [] method = "parse_compound" -> parse_compound(p)
      [] method = "parse_typed_declaration" -> parse_typed_declaration(p)
      [] method = "parse_declaration" -> parse_declaration(p)

RECURSIVE parse_loop(_, _)
\* the declaration loop of parse
parse_loop(p, decls) ==
    IF ~InRange(p) THEN Raise("IndexError", p)
    ELSE IF peek(p).type # "EOF" THEN
        LET d == call("parse_declaration", p, 0) IN
        IF d.st # "ok" THEN d
        ELSE parse_loop(d.p, IF d.node.t = "list" THEN decls \o d.node.items
                             ELSE Append(decls, d.node))
    ELSE Ok(p, Program(decls))

parse(p) == parse_loop(p, <<>>)

---------------------------------------------------------------------------
(* Semantic analyzer: src/src/semantic.py *)

(* A Python dict is a sequence of <<key, value>> pairs with distinct keys,  *)
(* in insertion order.                                                      *)
Has(d, k) == \E i \in 1..Len(d) : d[i][1] = k

Get(d, k) == d[CHOOSE i \in 1..Len(d) : d[i][1] = k][2]

Put(d, k, v) ==
    IF Has(d, k) THEN [i \in 1..Len(d) |-> IF d[i][1] = k THEN <<k, v>> ELSE d[i]]
    ELSE Append(d, <<k, v>>)

\* truth value of a node-or-None / of a string-or-None
Truthy(node) == node.t # "None" /\ ~(node.t = "list" /\ node.items = <<>>)
TruthyStr(str) == str # NoneStr /\ str # ""

\* the one implicit conversion: "not (a == 'int' and b == 'float')" is FALSE
Widening(from, to) == from = "int" /\ to = "float"

(* The diagnostics, as the strings semantic.py formats *)
ErrRedeclGlobal(name) == "Redeclaration of global " \o name
ErrRedeclFunction(name) == "Redeclaration of function " \o name
ErrFuncAsValue(name, fname) ==
    "Function " \o name \o " used as value in function " \o fname
ErrUndeclared(name, fname) ==
    "Use of undeclared identifier " \o name \o " in function " \o fname
ErrUndeclaredCall(name, fname) ==
    "Call to undeclared function " \o name \o " in function " \o fname
ErrArity(name, fname) ==
    "Wrong number of arguments in call to " \o name \o " in function " \o fname
ErrArgType(i, name, expected, at) ==
    "Type mismatch for argument " \o ToString(i + 1) \o " in call to " \o name
        \o ": expected " \o expected \o ", got " \o at
ErrRedeclLocal(name, fname) ==
    "Redeclaration of " \o name \o " in function " \o fname
ErrInitType(name, it, var_type, fname) ==
    "Type mismatch in initializer for " \o name \o ": " \o it \o " -> " \o var_type
        \o " in function " \o fname
ErrReturnType(fname, ret_type, rtype) ==
    "Return type mismatch in function " \o fname \o ": expected " \o ret_type
        \o ", got " \o rtype
ErrConstLocal(name, fname) ==
    "Assignment to const variable " \o name \o " in function " \o fname
ErrConstGlobal(name, fname) ==
    "Assignment to const global " \o name \o " in function " \o fname

(* env = [f, global_scope, functions]: the function being checked and the  *)
(* analyzer's tables; scope is check_function's local dict; errs is         *)
(* self.errors.  infer_type returns [typ, errors].                          *)
Typed(typ, errs) == [typ |-> typ, errors |-> errs]

RECURSIVE infer_type(_, _, _, _)
RECURSIVE infer_args(_, _, _, _, _, _)

\* the argument loop of infer_type on a FuncCall, from index i (0-based)
infer_args(node, i, callee, env, scope, errs) ==
    IF i >= Len(node.args) THEN errs
    ELSE LET at == infer_type(node.args[i + 1], env, scope, errs)
             e1 == IF i < Len(callee.params)
                   THEN LET expected == callee.params[i + 1][1] IN
                        IF /\ TruthyStr(at.typ) /\ TruthyStr(expected)
                           /\ at.typ # expected
                           /\ ~Widening(at.typ, expected)
                        THEN Append(at.errors,
                                    ErrArgType(i, node.name, expected, at.typ))
                        ELSE at.errors
                   ELSE at.errors
         IN infer_args(node, i + 1, callee, env, scope, e1)

\* infer_type on a FuncCall whose callee is registered
infer_call(node, env, scope, errs) ==
    LET callee == Get(env.functions, node.name)
        e1 == IF Len(node.args) # Len(callee.params)
              THEN Append(errs, ErrArity(node.name, env.f.name))
              ELSE errs
    IN Typed(callee.ret_type, infer_args(node, 0, callee, env, scope, e1))

infer_type(node, env, scope, errs) ==
    IF node.t = "None" THEN Typed(NoneStr, errs)
    ELSE IF node.t = "Literal" THEN Typed(node.typ, errs)
    ELSE IF node.t = "UnaryOp" THEN
        IF node.op \in {"!", "pre!", "post!"} THEN Typed("bool", errs)
        ELSE infer_type(node.expr, env, scope, errs)
    ELSE IF node.t = "VarRef" THEN
        IF Has(scope, node.name) THEN Typed(Get(scope, node.name)[1], errs)
        ELSE IF Has(env.global_scope, node.name)
             THEN Typed(Get(env.global_scope, node.name)[1], errs)
        ELSE IF Has(env.functions, node.name)
             THEN Typed(NoneStr, Append(errs, ErrFuncAsValue(node.name, env.f.name)))
        ELSE Typed(NoneStr, Append(errs, ErrUndeclared(node.name, env.f.name)))
    ELSE IF node.t = "FuncCall" THEN
        IF ~Has(env.functions, node.name)
        THEN Typed(NoneStr, Append(errs, ErrUndeclaredCall(node.name, env.f.name)))
        ELSE infer_call(node, env, scope, errs)
    ELSE IF node.t = "BinaryOp" THEN
        LET ltype == infer_type(node.left, env, scope, errs)
            rtype == infer_type(node.right, env, scope, ltype.errors)
            op == node.op
        IN IF op \in {"+", "-", "*", "/", "%"} THEN
               IF ltype.typ = "float" \/ rtype.typ = "float"
               THEN Typed("float", rtype.errors)
               ELSE Typed("int", rtype.errors)
           ELSE IF op \in {"==", "!=", "<", ">", "<=", ">="} THEN Typed("bool", rtype.errors)
           ELSE IF op \in {"&&", "||"} THEN Typed("bool", rtype.errors)
           ELSE IF op \in AssignOps THEN
               IF node.left.t = "VarRef" THEN
                   IF Has(scope, node.left.name)
                   THEN Typed(Get(scope, node.left.name)[1], rtype.errors)
                   ELSE IF Has(env.global_scope, node.left.name)
                   THEN Typed(Get(env.global_scope, node.left.name)[1], rtype.errors)
                   ELSE Typed(NoneStr, rtype.errors)
               ELSE Typed(NoneStr, rtype.errors)
           ELSE Typed(NoneStr, rtype.errors)
    ELSE Typed(NoneStr, errs)

(* visit returns [scope, errors]: the local scope and self.errors after it *)
Walked(scope, errs) == [scope |-> scope, errors |-> errs]

\* the const check of visit on an assignment whose left side is a VarRef
const_check(lname, env, scope, errs) ==
    LET e1 == IF Has(scope, lname) /\ Get(scope, lname)[2]
              THEN Append(errs, ErrConstLocal(lname, env.f.name))
              ELSE errs
    IN IF Has(env.global_scope, lname) /\ Get(env.global_scope, lname)[2]
       THEN Append(e1, ErrConstGlobal(lname, env.f.name))
       ELSE e1

\* the return-type check of visit on a Return with an expression
return_check(rtype, env, errs) ==
    IF /\ env.f.ret_type # "void"
       /\ TruthyStr(rtype) /\ rtype # env.f.ret_type
       /\ ~Widening(rtype, env.f.ret_type)
    THEN Append(errs, ErrReturnType(env.f.name, env.f.ret_type, rtype))
    ELSE errs

\* the initializer check of visit on a VarDecl
init_check(node, it, env, errs) ==
    IF /\ TruthyStr(it) /\ it # node.var_type
       /\ ~Widening(it, node.var_type)
    THEN Append(errs, ErrInitType(node.name, it, node.var_type, env.f.name))
    ELSE errs

RECURSIVE visit(_, _, _, _)
RECURSIVE visit_all(_, _, _, _)

\* "for x in nodes: visit(x)"
visit_all(nodes, env, scope, errs) ==
    IF nodes = <<>> THEN Walked(scope, errs)
    ELSE LET w == visit(Head(nodes), env, scope, errs) IN
         visit_all(Tail(nodes), env, w.scope, w.errors)

visit(node, env, scope, errs) ==
    IF node.t = "None" THEN Walked(scope, errs)
    ELSE IF node.t = "Compound" THEN visit_all(node.statements, env, scope, errs)
    ELSE IF node.t = "VarDecl" THEN
        LET e1 == IF Has(scope, node.name)
                  THEN Append(errs, ErrRedeclLocal(node.name, env.f.name))
                  ELSE errs
            scope1 == Put(scope, node.name, <<node.var_type, node.is_const>>)
        IN IF Truthy(node.init) THEN
               LET it == infer_type(node.init, env, scope1, e1) IN
               visit(node.init, env, scope1,
                     init_check(node, it.typ, env, it.errors))
           ELSE Walked(scope1, e1)
    ELSE IF node.t = "If" THEN
        LET c == visit(node.cond, env, scope, errs)
            th == visit(node.then_branch, env, c.scope, c.errors)
        IN IF Truthy(node.else_branch)
           THEN visit(node.else_branch, env, th.scope, th.errors)
           ELSE th
    ELSE IF node.t = "While" THEN
        LET c == visit(node.cond, env, scope, errs) IN
        visit(node.body, env, c.scope, c.errors)
    ELSE IF node.t = "Return" THEN
        IF Truthy(node.expr) THEN
            LET rtype == infer_type(node.expr, env, scope, errs) IN
            visit(node.expr, env, scope, return_check(rtype.typ, env, rtype.errors))
        ELSE Walked(scope, errs)
    ELSE IF node.t = "ExprStmt" THEN visit(node.expr, env, scope, errs)
    ELSE IF node.t = "BinaryOp" THEN
        LET e1 == IF node.op \in AssignOps /\ node.left.t = "VarRef"
                  THEN const_check(node.left.name, env, scope, errs)
                  ELSE errs
            l == visit(node.left, env, scope, e1)
        IN visit(node.right, env, l.scope, l.errors)
    ELSE IF node.t = "UnaryOp" THEN visit(node.expr, env, scope, errs)
    ELSE IF node.t = "VarRef" THEN
        IF /\ ~Has(scope, node.name)
           /\ ~Has(env.global_scope, node.name)
           /\ ~Has(env.functions, node.name)
        THEN Walked(scope, Append(errs, ErrUndeclared(node.name, env.f.name)))
        ELSE Walked(scope, errs)
    ELSE IF node.t = "FuncCall" THEN
        visit_all(node.args, env,  scope,
                  IF ~Has(env.functions, node.name)
                  THEN Append(errs, ErrUndeclaredCall(node.name, env.f.name))
                  ELSE errs)
    ELSE Walked(scope, errs)

RECURSIVE params_scope(_, _)
\* { name: (typ, False) for typ, name in f.params }
params_scope(params, scope) ==
    IF params = <<>> THEN scope
    ELSE params_scope(Tail(params), Put(scope, Head(params)[2], <<Head(params)[1], FALSE>>))

\* returns self.errors after the walk of f
check_function(f, gscope, funcs, errs) ==
    visit(f.body, [f |-> f, global_scope |-> gscope, functions |-> funcs],
          params_scope(f.params, <<>>), errs).errors

\* the analyzer object
Analyzer(errs, gscope, funcs) ==
    [errors |-> errs, global_scope |-> gscope, functions |-> funcs]

RECURSIVE collect(_, _)
\* pass 1 of analyze over the declarations decls
collect(decls, self) ==
    IF decls = <<>> THEN self
    ELSE LET decl == Head(decls)
             self1 ==
                 IF decl.t = "VarDecl" THEN
                     IF Has(self.global_scope, decl.name)
                     THEN [self EXCEPT !.errors = Append(@, ErrRedeclGlobal(decl.name))]
                     ELSE [self EXCEPT !.global_scope =
                               Put(@, decl.name, <<decl.var_type, decl.is_const>>)]
                 ELSE IF decl.t = "FuncDecl" THEN
                     IF Has(self.functions, decl.name)
                     THEN [self EXCEPT !.errors = Append(@, ErrRedeclFunction(decl.name))]
                     ELSE [self EXCEPT !.functions = Put(@, decl.name, decl)]
                 ELSE self
         IN collect(Tail(decls), self1)

RECURSIVE check_functions(_, _, _)
\* pass 2 of analyze: "for fname, fdecl in self.functions.items()", from index i
check_functions(i, self, errs) ==
    IF i > Len(self.functions) THEN errs
    ELSE check_functions(i + 1, self,
             check_function(self.functions[i][2], self.global_scope,
                            self.functions, errs))

\* analyze() on the analyzer self of the tree program: the analyzer afterwards
analyze(self, program) ==
    LET self1 == collect(program.declarations, self) IN
    [self1 EXCEPT !.errors = check_functions(1, self1, self1.errors)]

---------------------------------------------------------------------------
(* Inputs: the source texts the checks run over *)

\* longest free lexeme sequence
MaxTokens == 4
\* most statements in the body of the last function of a program
MaxStmts == 2
\* most global variable declarations of a program
MaxGlobals == 2
\* most operands of an operator chain
MaxOperands == 3
\* most operands after a prefix operator
MaxPrefixedOperands == 2
\* most analyze() calls on one analyzer
MaxRuns == 2
\* longest source text, in characters
MaxChars == 6

RECURSIVE Flatten(_)
Flatten(ss) == IF ss = <<>> THEN <<>> ELSE Head(ss) \o Flatten(Tail(ss))

\* every sequence of at most MaxTokens of these lexemes
Alphabet == {"int", "const", "f", "(", ")", ";", "{", "}", "=", "1", ","}

GlobalDecls ==
    {<<"const", "int", "x", "=", "1", ";">>,
     <<"int", "x", ";">>}

FuncHeads ==
    {<<"int", "add", "(", "int", "a", ",", "int", "b", ")">>,
     <<"void", "f", "(", ")">>,
     <<"int", "g", "(", ")">>,
     <<"float", "g", "(", ")">>,
     <<"void", "x", "(", ")">>}

Stmts ==
    {<<"add", "(", "1", ")", ";">>,
     <<"return", "add", "(", "1", ")", ";">>,
     <<"int", "v", "=", "y", ";">>,
     <<"return", "y", ";">>,
     <<"y", "=", "1", ";">>,
     <<"x", "=", "6", ";">>,
     <<"int", "x", "=", "1", ";">>,
     <<"const", "int", "x", "=", "1", ";">>,
     <<"return", "1", ";">>,
     <<"return", "1.5", ";">>,
     <<"if", "(", "1", ")", "return", "1.5", ";">>,
     <<"for", "(", ";", ";", ")", "return", "1.5", ";">>,
     <<"for", "(", ";", ";", ")", "x", "=", "6", ";">>}

\* a program: global declarations, at most one function with an empty body,
\* and a function with at most MaxStmts statements
Helpers == {<<>>} \cup {h \o <<"{", "}">> : h \in FuncHeads}
ProgramSource(gs, helper, h, ss) ==
    Flatten(gs) \o helper \o h \o <<"{">> \o Flatten(ss) \o <<"}">>

\* expressions: chains of primaries joined by binary operators, and such
\* chains after one prefix operator
Primaries == {"a", "1"}
BinaryOps == DOMAIN PRECEDENCE

RECURSIVE Interleave(_, _)
Interleave(ps, os) ==
    IF Len(ps) = 1 THEN <<ps[1]>>
    ELSE <<ps[1], os[1]>> \o Interleave(Tail(ps), Tail(os))

PrefixedSource(u, c) == <<u>> \o c

---------------------------------------------------------------------------
(* The driver: src/run.py main *)

\* before Parser(src) is constructed
Fresh(src) ==
    /\ code = src
    /\ pc = "start"
    /\ tokens = <<>>
    /\ parser = [pos |-> 0, exps |-> <<>>]
    /\ outcome = "none"
    /\ tree = None
    /\ errors = <<>>
    /\ global_scope = <<>>
    /\ functions = <<>>
    /\ runs = 0
    /\ first_errors = <<>>

Init ==
    \/ \E k \in 0..MaxTokens : \E src \in [1..k -> Alphabet] : Fresh(src)
    \/ \E i \in 0..MaxGlobals, j \in 0..MaxStmts :
           \E gs \in [1..i -> GlobalDecls], helper \in Helpers,
              h \in FuncHeads, ss \in [1..j -> Stmts] :
               Fresh(ProgramSource(gs, helper, h, ss))

InitExpr ==
    \/ \E k \in 1..MaxOperands :
           \E ps \in [1..k -> Primaries], os \in [1..(k - 1) -> BinaryOps] :
               Fresh(Interleave(ps, os))
    \/ \E k \in 1..MaxPrefixedOperands :
           \E u \in PrefixOps, ps \in [1..k -> Primaries], os \in [1..(k - 1) -> BinaryOps] :
               Fresh(PrefixedSource(u, Interleave(ps, os)))

\* Parser(code)
ParserInit ==
    /\ pc = "start"
    /\ tokens' = tokenize(code)
    /\ parser' = [pos |-> 0, exps |-> <<>>]
    /\ pc' = "parser"
    /\ UNCHANGED <<code, outcome, tree, errors, global_scope, functions, runs,
                   first_errors>>

\* what a parsing method's result leaves in the state
Finished(r, returned) ==
    /\ parser' = r.p
    /\ outcome' = IF r.st = "ok" THEN returned ELSE r.st
    /\ tree' = r.node
    /\ pc' = "parsed"
    /\ UNCHANGED <<code, tokens, errors, global_scope, functions, runs, first_errors>>

\* parser.parse()
Parse ==
    /\ pc = "parser"
    /\ Finished(parse(parser), "Program")

\* parser.parse_expression()
ParseExpression ==
    /\ pc = "parser"
    /\ Finished(parse_expression(parser, 0), "Expression")

\* SemanticAnalyzer(prog)
AnalyzerInit ==
    /\ pc = "parsed"
    /\ outcome = "Program"
    /\ errors' = <<>>
    /\ global_scope' = <<>>
    /\ functions' = <<>>
    /\ pc' = "analyzer"
    /\ UNCHANGED <<code, tokens, parser, outcome, tree, runs, first_errors>>

\* sem.analyze()
Analyze ==
    /\ pc = "analyzer"
    /\ runs < MaxRuns
    /\ LET self == analyze(Analyzer(errors, global_scope, functions), tree) IN
       /\ errors' = self.errors
       /\ global_scope' = self.global_scope
       /\ functions' = self.functions
       /\ first_errors' = IF runs = 0 THEN self.errors ELSE first_errors
    /\ runs' = runs + 1
    /\ UNCHANGED <<code, pc, tokens, parser, outcome, tree>>

Next == ParserInit \/ Parse \/ AnalyzerInit \/ Analyze

Spec == Init /\ [][Next]_vars

NextExpr == ParserInit \/ ParseExpression

SpecExpr == InitExpr /\ [][NextExpr]_vars

\* the characters of the source texts given to the scanner
Chars == {"a", "1", " ", "\n", "/", "*"}

InitLex == \E k \in 0..MaxChars : \E text \in [1..k -> Chars] : Fresh(text)

\* Lexer(code).tokenize()
Tokenize ==
    /\ pc = "start"
    /\ tokens' = Lexer_tokenize(code)
    /\ pc' = "lexed"
    /\ UNCHANGED <<code, parser, outcome, tree, errors, global_scope, functions,
                   runs, first_errors>>

NextLex == Tokenize

SpecLex == InitLex /\ [][NextLex]_vars

---------------------------------------------------------------------------
(* Vocabulary of the properties *)

\* number of occurrences of x in the sequence s
RECURSIVE CountSeq(_, _)
CountSeq(s, x) ==
    IF s = <<>> THEN 0
    ELSE (IF Head(s) = x THEN 1 ELSE 0) + CountSeq(Tail(s), x)

\* the children of a syntax tree node, in source order
Children(node) ==
    CASE node.t = "Program" -> node.declarations
      [] node.t = "FuncDecl" -> <<node.body>>
      [] node.t = "VarDecl" -> <<node.init>>
      [] node.t = "Compound" -> node.statements
      [] node.t = "If" -> <<node.cond, node.then_branch, node.else_branch>>
      [] node.t = "While" -> <<node.cond, node.body>>
      [] node.t = "For" -> <<node.init, node.cond, node.post, node.body>>
      [] node.t = "Return" -> <<node.expr>>
      [] node.t = "ExprStmt" -> <<node.expr>>
      [] node.t = "BinaryOp" -> <<node.left, node.right>>
      [] node.t = "UnaryOp" -> <<node.expr>>
      [] node.t = "FuncCall" -> node.args
      [] node.t = "list" -> node.items
      [] OTHER -> <<>>

\* every node of the subtree at node, in pre-order
RECURSIVE Nodes(_)
RECURSIVE NodesOfAll(_)
Nodes(node) == <<node>> \o NodesOfAll(Children(node))
NodesOfAll(nodes) ==
    IF nodes = <<>> THEN <<>> ELSE Nodes(Head(nodes)) \o NodesOfAll(Tail(nodes))

\* the positions of s whose element satisfies the test
Where(s, Test(_)) == {i \in 1..Len(s) : Test(s[i])}

\* the first analyze() has returned and no other was made
AnalyzedOnce == pc = "analyzer" /\ runs = 1

\* the registered functions
Registered == {functions[i][2] : i \in 1..Len(functions)}

\* the names of the function's parameters
ParamNames(f) == {f.params[i][2] : i \in 1..Len(f.params)}

TypeNames == {"int", "float", "char", "bool"}

---------------------------------------------------------------------------
(* C1 *)

\* the body of f holds no for statement (the walk of for statements is the
\* subject of C12)
NoFor(f) ==
    LET ns == Nodes(f.body) IN \A i \in 1..Len(ns) : ns[i].t # "For"

\* the calls in the body of f to callee with the wrong number of arguments
BadArityCalls(f, callee) ==
    LET ns == Nodes(f.body) IN
    {i \in 1..Len(ns) : /\ ns[i].t = "FuncCall"
                        /\ ns[i].name = callee.name
                        /\ Len(ns[i].args) # Len(callee.params)}

\* C1: after analyze(), every call in a registered function's body (a bare
\* expression statement included; bodies without for statements) to a
\* registered function with the wrong number of arguments has its own
\* wrong-number-of-arguments diagnostic.
C1_ArityReported ==
    AnalyzedOnce =>
        \A f \in Registered, callee \in Registered :
            NoFor(f) => CountSeq(errors, ErrArity(callee.name, f.name))
                >= Cardinality(BadArityCalls(f, callee))

---------------------------------------------------------------------------
(* C2 *)

\* C2: every expect call that asked for a specific value and returned has
\* consumed a token of the required kind with exactly that value; any other
\* token raises ParseError and is left at the cursor.
C2_ExpectExact ==
    \A i \in 1..Len(parser.exps) :
        LET e == parser.exps[i] IN
        e.value # NoneStr => (e.got.type = e.typ /\ e.got.value = e.value)

---------------------------------------------------------------------------
(* C3 *)

\* C3: parse() ends with a Program and the cursor on the EOF token, or with
\* ParseError; the cursor never passes the index of the EOF token.
C3_ParseTotal ==
    pc # "start" =>
        /\ parser.pos <= Len(tokens) - 1
        /\ pc # "parser" =>
              \/ outcome = "Program" /\ peek(parser).type = "EOF"
              \/ outcome = "ParseError"

---------------------------------------------------------------------------
(* C4 *)

\* number of references to the identifier name in the subtree at node
Refs(node, name) ==
    LET ns == Nodes(node) IN
    Cardinality({i \in 1..Len(ns) : ns[i].t = "VarRef" /\ ns[i].name = name})

\* the expressions of the local initializers, returns and expression
\* statements of the body of f
StatementExprs(f) ==
    LET ns == Nodes(f.body)
        at == {i \in 1..Len(ns) : ns[i].t \in {"VarDecl", "Return", "ExprStmt"}}
    IN [i \in at |-> IF ns[i].t = "VarDecl" THEN ns[i].init ELSE ns[i].expr]

RECURSIVE SumOver(_, _)
\* the sum of the function g over the finite set S of its arguments
SumOver(g, S) ==
    IF S = {} THEN 0
    ELSE LET x == CHOOSE y \in S : TRUE IN g[x] + SumOver(g, S \ {x})

\* references to name in the initializers, returns and expression statements
\* of f
StatementRefs(f, name) ==
    LET es == StatementExprs(f) IN
    SumOver([i \in DOMAIN es |-> Refs(es[i], name)], DOMAIN es)

\* the names the body of f declares
LocalNames(f) ==
    LET ns == Nodes(f.body) IN
    {ns[i].name : i \in {j \in 1..Len(ns) : ns[j].t = "VarDecl"}}

\* the identifiers the body of f refers to
RefNames(f) ==
    LET ns == Nodes(f.body) IN
    {ns[i].name : i \in {j \in 1..Len(ns) : ns[j].t = "VarRef"}}

\* name is declared in no scope of f: not local, not global, not a function
DeclaredNowhere(f, name) ==
    /\ name \notin ParamNames(f) \cup LocalNames(f)
    /\ ~Has(global_scope, name)
    /\ ~Has(functions, name)

\* C4: in a registered function without for statements, an identifier
\* declared in no scope that is referred to only in local initializers,
\* return expressions and expression statements has exactly one
\* undeclared-identifier diagnostic per reference.
C4_UndeclaredOnce ==
    AnalyzedOnce =>
        \A f \in Registered : \A name \in RefNames(f) :
            (/\ NoFor(f)
             /\ DeclaredNowhere(f, name)
             /\ StatementRefs(f, name) = Refs(f.body, name))
                => CountSeq(errors, ErrUndeclared(name, f.name)) = Refs(f.body, name)

---------------------------------------------------------------------------
(* C5 *)

\* the assignments and compound assignments to the plain identifier name in
\* the body of f
Assignments(f, name) ==
    LET ns == Nodes(f.body) IN
    {i \in 1..Len(ns) : /\ ns[i].t = "BinaryOp"
                        /\ ns[i].op \in AssignOps
                        /\ ns[i].left.t = "VarRef"
                        /\ ns[i].left.name = name}

\* the identifiers the body of f assigns to
AssignedNames(f) ==
    LET ns == Nodes(f.body) IN
    {ns[i].left.name :
        i \in {j \in 1..Len(ns) : /\ ns[j].t = "BinaryOp"
                                  /\ ns[j].op \in AssignOps
                                  /\ ns[j].left.t = "VarRef"}}

\* the declarations of name in the body of f
LocalDecls(f, name) ==
    LET ns == Nodes(f.body) IN
    {i \in 1..Len(ns) : ns[i].t = "VarDecl" /\ ns[i].name = name}

\* name is declared once in f, by the first statement of its body, so that
\* every assignment to it in f comes after the declaration
DeclaredFirst(f, name) ==
    /\ Cardinality(LocalDecls(f, name)) = 1
    /\ name \notin ParamNames(f)
    /\ f.body.statements # <<>>
    /\ f.body.statements[1].t = "VarDecl"
    /\ f.body.statements[1].name = name

\* whether the declaration name resolves to in f (local scope first, then
\* global scope) is const-qualified
ResolvesToConst(f, name) ==
    IF DeclaredFirst(f, name) THEN f.body.statements[1].is_const
    ELSE IF name \in ParamNames(f) THEN FALSE
    ELSE Has(global_scope, name) /\ Get(global_scope, name)[2]

\* C5: in a registered function without for statements, the const-assignment
\* diagnostics for an identifier are one per assignment to it when the
\* declaration it resolves to (local first, then global) is const, and none
\* otherwise.
C5_ConstAssignment ==
    AnalyzedOnce =>
        \A f \in Registered : \A name \in AssignedNames(f) :
            (NoFor(f) /\ (LocalDecls(f, name) = {} \/ DeclaredFirst(f, name))) =>
                CountSeq(errors, ErrConstLocal(name, f.name))
                    + CountSeq(errors, ErrConstGlobal(name, f.name))
                = IF ResolvesToConst(f, name)
                  THEN Cardinality(Assignments(f, name)) ELSE 0

---------------------------------------------------------------------------
(* C6 *)

\* C6: after a second analyze() on the same analyzer the diagnostics list
\* equals the list after the first call.
C6_SecondRunSame ==
    (pc = "analyzer" /\ runs = 2) => errors = first_errors

---------------------------------------------------------------------------
(* C7 *)

\* the positions of the top-level declarations of name
TopDecls(name) ==
    {i \in 1..Len(tree.declarations) : tree.declarations[i].name = name}

TopNames == {tree.declarations[i].name : i \in 1..Len(tree.declarations)}

Min(S) == CHOOSE x \in S : \A y \in S : x <= y
Max(S) == CHOOSE x \in S : \A y \in S : x >= y

\* the declaration decl is the one registered under its name, and in its
\* table only
RegisteredAs(decl) ==
    IF decl.t = "VarDecl"
    THEN /\ Has(global_scope, decl.name)
         /\ Get(global_scope, decl.name) = <<decl.var_type, decl.is_const>>
         /\ ~Has(functions, decl.name)
    ELSE /\ Has(functions, decl.name)
         /\ Get(functions, decl.name) = decl
         /\ ~Has(global_scope, decl.name)

\* C7: when exactly two top-level declarations share a name (variables,
\* functions, or one of each), the collection pass records exactly one
\* redeclaration diagnostic, for the second, and the first is the one
\* registered.
C7_RedeclaredOnce ==
    AnalyzedOnce =>
        \A name \in TopNames :
            Cardinality(TopDecls(name)) = 2 =>
                LET first == tree.declarations[Min(TopDecls(name))]
                    second == tree.declarations[Max(TopDecls(name))]
                IN /\ CountSeq(errors, ErrRedeclGlobal(name))
                        + CountSeq(errors, ErrRedeclFunction(name)) = 1
                   /\ CountSeq(errors, IF second.t = "VarDecl"
                                       THEN ErrRedeclGlobal(name)
                                       ELSE ErrRedeclFunction(name)) = 1
                   /\ RegisteredAs(first)

---------------------------------------------------------------------------
(* C10 *)

\* the return statements of f that return a literal
LiteralReturns(f) ==
    LET ns == Nodes(f.body) IN
    {i \in 1..Len(ns) : ns[i].t = "Return" /\ ns[i].expr.t = "Literal"}

\* the return statements of f that return a literal of type typ
ReturnsOfType(f, typ) ==
    LET ns == Nodes(f.body) IN
    {i \in LiteralReturns(f) : ns[i].expr.typ = typ}

\* every return statement of f with an expression returns a literal, whose
\* type is then the inferred type whatever the scope holds
OnlyLiteralReturns(f) ==
    LET ns == Nodes(f.body) IN
    \A i \in 1..Len(ns) :
        (ns[i].t = "Return" /\ ns[i].expr.t # "None") => i \in LiteralReturns(f)

\* C10: in a registered function of return type D other than void, a return
\* statement whose expression has type T has a return-type-mismatch
\* diagnostic if and only if T differs from D and is not int returned as
\* float.
C10_ReturnMismatch ==
    AnalyzedOnce =>
        \A f \in Registered :
            (f.ret_type # "void" /\ OnlyLiteralReturns(f)) =>
                \A typ \in TypeNames :
                    CountSeq(errors, ErrReturnType(f.name, f.ret_type, typ))
                    = IF typ # f.ret_type /\ ~(typ = "int" /\ f.ret_type = "float")
                      THEN Cardinality(ReturnsOfType(f, typ)) ELSE 0

---------------------------------------------------------------------------
(* C8 and C9: parse_expression on expressions *)

\* the lexemes of an expression tree of primaries and binary operators, in
\* source order
RECURSIVE Yield(_)
Yield(node) ==
    CASE node.t = "VarRef" -> <<node.name>>
      [] node.t = "Literal" -> <<node.value>>
      [] node.t = "BinaryOp" -> Yield(node.left) \o <<node.op>> \o Yield(node.right)
      [] OTHER -> <<>>

\* parse_expression has returned or raised
ExpressionParsed == pc = "parsed"

\* the source is: prefix operator, primary, binary operator, primary
PrefixedBinary ==
    /\ Len(code) = 4
    /\ code[1] \in PrefixOps
    /\ code[2] \in Primaries
    /\ code[3] \in BinaryOps
    /\ code[4] \in Primaries

\* C8: for "prefix-operator primary binary-operator operand",
\* parse_expression returns the BinaryOp of the UnaryOp and the right operand,
\* having read the whole expression.
C8_UnaryThenBinary ==
    (ExpressionParsed /\ PrefixedBinary) =>
        /\ outcome = "Expression"
        /\ peek(parser).type = "EOF"
        /\ tree.t = "BinaryOp"
        /\ tree.op = code[3]
        /\ tree.left.t = "UnaryOp"
        /\ Yield(tree.left.expr) = <<code[2]>>
        /\ Yield(tree.right) = <<code[4]>>

\* the source is a chain of primaries joined by binary operators
IsChain ==
    /\ Len(code) % 2 = 1
    /\ \A i \in 1..Len(code) :
           IF i % 2 = 1 THEN code[i] \in Primaries ELSE code[i] \in BinaryOps

\* a BinaryOp and its BinaryOp children are grouped by the binding powers: a
\* child binds tighter than its parent, except an equal-precedence child on
\* the left of a non-assignment operator or on the right of an assignment
GroupedAt(node) ==
    /\ node.left.t = "BinaryOp" =>
           IF node.op \in AssignOps
           THEN PRECEDENCE[node.left.op] > PRECEDENCE[node.op]
           ELSE PRECEDENCE[node.left.op] >= PRECEDENCE[node.op]
    /\ node.right.t = "BinaryOp" =>
           IF node.op \in AssignOps
           THEN PRECEDENCE[node.right.op] >= PRECEDENCE[node.op]
           ELSE PRECEDENCE[node.right.op] > PRECEDENCE[node.op]

WellGrouped(node) ==
    LET ns == Nodes(node) IN
    \A i \in 1..Len(ns) : ns[i].t = "BinaryOp" => GroupedAt(ns[i])

\* C9: parse_expression reads a whole chain of primaries joined by binary
\* operators and returns the tree over the same lexemes in the same order in
\* which higher precedence nests under lower, equal precedence nests to the
\* left, and assignments nest to the right.
C9_ChainGrouping ==
    (ExpressionParsed /\ IsChain) =>
        /\ outcome = "Expression"
        /\ peek(parser).type = "EOF"
        /\ Yield(tree) = code
        /\ WellGrouped(tree)

\* a chain of two assignments has been parsed, the second under the first
C9_Witness ==
    /\ ExpressionParsed
    /\ code = <<"a", "=", "a", "=", "1">>
    /\ tree.t = "BinaryOp"
    /\ tree.right.t = "BinaryOp"
    /\ tree.right.op = "="

\* the newline characters among the first n characters of text
RECURSIVE Newlines(_, _)
Newlines(text, n) ==
    IF n = 0 THEN 0
    ELSE Newlines(text, n - 1) + (IF text[n] = "\n" THEN 1 ELSE 0)

\* the offset where the line holding offset n starts
RECURSIVE LineStart(_, _)
LineStart(text, n) ==
    IF n = 0 \/ text[n] = "\n" THEN n ELSE LineStart(text, n - 1)

\* the tokens of the text, the closing EOF token left out
Lexemes == SubSeq(tokens, 1, Len(tokens) - 1)

\* C11: every token emitted by tokenize() has line = 1 + the number of
\* newline characters before its first character, and column = 1 + the
\* offset of that character from the start of its line, also after a block
\* comment that spans several lines.
C11_TokenPositions ==
    pc = "lexed" =>
        \A i \in 1..Len(Lexemes) :
            /\ Lexemes[i].line = 1 + Newlines(code, Lexemes[i].start)
            /\ Lexemes[i].column = 1 + Lexemes[i].start - LineStart(code, Lexemes[i].start)


\* C12: after analyze(), every identifier declared in no scope that a
\* registered function's body refers to anywhere, the init, condition, post
\* and body of a for statement included, has at least one
\* undeclared-identifier diagnostic naming it.
C12_WalkReachesAll ==
    AnalyzedOnce =>
        \A f \in Registered : \A name \in RefNames(f) :
            DeclaredNowhere(f, name) =>
                CountSeq(errors, ErrUndeclared(name, f.name)) >= 1

===========================================================================
